---- MODULE Spec2Model ----
(***************************************************************************)
(* rindgen: static HTML directory listings.                                *)
(*                                                                         *)
(* Three specifications:                                                   *)
(*   Spec      main, app and generate of src/main.rs over a bounded         *)
(*             directory tree (early exits, walkdir traversal, grouping,   *)
(*             template load, page writes);                                *)
(*   SpecSize  size_fmt applied to bounded u64 byte counts;                *)
(*   SpecIcon  get_icon_by_mime applied to bounded MIME strings and icon   *)
(*             catalogs.                                                   *)
(*                                                                         *)
(* A path is the sequence of its components below the working directory:   *)
(* <<>> is ".", <<"sub", "b.txt">> is "./sub/b.txt".                       *)
(***************************************************************************)
EXTENDS Integers, Sequences, FiniteSets, TLC

VARIABLES fs, args, pc, max_depth, started, stack, map, rendered, pages,
          created, stdout, result,
          call, ret    \* SpecSize, SpecIcon: the arguments and the return value

vars == <<fs, args, pc, max_depth, started, stack, map, rendered, pages,
          created, stdout, result, call, ret>>

(***************************************************************************)
(* Bounds of the model.                                                    *)
(***************************************************************************)
MaxEntries == 3
MaxTreeDepth == 3
MaxDepthArg == 2
\* entries of the small trees: those given to the invocations that end before
\* the walk and to those that name a theme or a template
MaxSmallEntries == 1

\* usize::MAX, the default of --depth; TLC integers are 32 bits wide, so the
\* model uses the largest of them.  Every depth of the model is far below.
UsizeMax == 2147483647

Names == {"b.txt", "favicon.ico", "images", "index.html", "out.html", "sub"}
\* the kinds a name is given in the trees of the model
KindsOf(n) ==
    CASE n \in {"b.txt", "favicon.ico"} -> {"file"}
      [] n \in {"images", "sub"}        -> {"dir"}
      [] OTHER                          -> {"file", "dir"}
OutputNames == {"index.html", "out.html"}

(***************************************************************************)
(* File names as bytes (for the comparison of sort_by_file_name).          *)
(***************************************************************************)
NameBytes(n) ==
    CASE n = "b.txt"       -> <<98, 46, 116, 120, 116>>
      [] n = "favicon.ico" -> <<102, 97, 118, 105, 99, 111, 110, 46, 105, 99, 111>>
      [] n = "images"      -> <<105, 109, 97, 103, 101, 115>>
      [] n = "index.html"  -> <<105, 110, 100, 101, 120, 46, 104, 116, 109, 108>>
      [] n = "out.html"    -> <<111, 117, 116, 46, 104, 116, 109, 108>>
      [] n = "sub"         -> <<115, 117, 98>>

RECURSIVE BytesLess(_, _)
BytesLess(a, b) ==
    IF b = <<>> THEN FALSE
    ELSE IF a = <<>> THEN TRUE
    ELSE IF Head(a) # Head(b) THEN Head(a) < Head(b)
    ELSE BytesLess(Tail(a), Tail(b))

\* a.file_name().cmp(b.file_name()) == Less
NameLess(a, b) == BytesLess(NameBytes(a), NameBytes(b))

(***************************************************************************)
(* The directory tree: a function from the paths of its entries to their   *)
(* kind.  The root "." is a directory and is not in the domain.            *)
(***************************************************************************)
file_name(p) == p[Len(p)]
parent(p) == SubSeq(p, 1, Len(p) - 1)
depth(p) == Len(p)
is_dir(t, p) == p = <<>> \/ (p \in DOMAIN t /\ t[p] = "dir")

DirsOf(t) == {<<>>} \cup {p \in DOMAIN t : t[p] = "dir"}

Extensions(t) ==
    UNION {UNION {{(Append(p, n) :> k) @@ t : k \in KindsOf(n)} :
                  n \in {m \in Names : Append(p, m) \notin DOMAIN t}} :
           p \in {q \in DirsOf(t) : Len(q) < MaxTreeDepth}}

RECURSIVE Trees(_)
Trees(n) ==
    IF n = 0 THEN {<<>>}
    ELSE LET T == Trees(n - 1) IN T \cup UNION {Extensions(t) : t \in T}

Children(t, d) == {p \in DOMAIN t : Len(p) = Len(d) + 1 /\ parent(p) = d}

(***************************************************************************)
(* walkdir: the entries of a directory, sorted by file name.               *)
(***************************************************************************)
\* variant for C5: a directory listed in descending order of name
RECURSIVE SortDescending(_)
SortDescending(S) ==
    IF S = {} THEN <<>>
    ELSE LET m == CHOOSE x \in S :
                    \A y \in S \ {x} : NameLess(file_name(y), file_name(x))
         IN <<m>> \o SortDescending(S \ {m})

\* sort_by_file_name: ascending, by the bytes of the file name
RECURSIVE SortByFileName(_)
SortByFileName(S) ==
    IF S = {} THEN <<>>
    ELSE LET m == CHOOSE x \in S :
                    \A y \in S \ {x} : NameLess(file_name(x), file_name(y))
         IN <<m>> \o SortByFileName(S \ {m})

\* IntoIter::push with a sorter: the directory's entries, collected and sorted
DirList(t, d) == SortByFileName(Children(t, d))

\* the closure handed to filter_entry
filter_entry(e) == file_name(e) \notin {"index.html", "images", "favicon.ico"}

\* IntoIter::handle_entry: a directory is pushed on the stack when it is met
Push(t, stk, dent) == IF is_dir(t, dent) THEN Append(stk, DirList(t, dent)) ELSE stk

\* IntoIter::pop: the walk leaves the deepest open directory
Pop(stk) == SubSeq(stk, 1, Len(stk) - 1)

\* the top list of the stack advanced by one entry
Advance(stk) == [stk EXCEPT ![Len(stk)] = Tail(stk[Len(stk)])]

\* variant for C4: a walk without a cutoff
NeverExceeds(stk, md) == FALSE

\* IntoIter::next: a list deeper than max_depth is popped unread
ExceedsMaxDepth(stk, md) == Len(stk) > md

\* variant for C3: a rejected directory is still descended into
KeepSubtree(t, stk, dent) == stk

\* FilterEntry::next on a rejected entry: a directory's list is dropped unread
SkipCurrentDir(t, stk, dent) == IF is_dir(t, dent) THEN Pop(stk) ELSE stk

\* variant for C1: every entry grouped under the root
KeyOfRoot(e) == <<>>

\* the key of the group an entry is appended to: its parent path
GroupKey(e) == parent(e)

\* map.entry(key).or_default().push(entry)
MapPush(m, e) ==
    LET k == GroupKey(e) IN
    IF k \in DOMAIN m THEN [m EXCEPT ![k] = Append(@, e)]
    ELSE (k :> <<e>>) @@ m

\* app: the cutoff handed to generate
CutoffDepth(no_recursive, d) == IF no_recursive THEN 1 ELSE d

\* variant for C9: every page written to the root
OutputInRoot(k, name) == <<name>>

\* File::create(k + "/" + name)
OutputPath(k, name) == Append(k, name)

\* the FileItems of a group, in the order of its entries
FileItems(t, v) ==
    [i \in 1..Len(v) |->
        [path |-> v[i], name |-> file_name(v[i]), is_dir |-> is_dir(t, v[i])]]

\* the rendered page of group k
Page(t, k, v) == [key |-> k, files |-> FileItems(t, v), whole |-> TRUE]

\* what write_all leaves behind when it fails: a created file, not the page
Truncated(k) == [key |-> k, files |-> <<>>, whole |-> FALSE]

(***************************************************************************)
(* Initial states: a tree and the parsed options.                          *)
(***************************************************************************)
\* PATH: not given, not existing, a regular file, a directory
PathKinds == {"none", "missing", "file", "dir"}

\* --theme: "default" without the option
Themes == {"default", "nosuch"}

\* --template: not given; a glob whose templates Tera loads, index.html among
\* them; one whose templates Tera loads, with no index.html; one Tera rejects
TemplateKinds == {"none", "good", "noindex", "bad"}

\* the command line: parse_ok is the outcome of opts.parse, depth_valid that
\* of reading NUMBER of --depth as a usize (depth is usize::MAX without the
\* option)
Args == [parse_ok : BOOLEAN, help : BOOLEAN, version : BOOLEAN,
         path : PathKinds, depth_valid : BOOLEAN,
         theme : Themes, template : TemplateKinds,
         name : OutputNames, no_recursive : BOOLEAN,
         depth : (0..MaxDepthArg) \cup {UsizeMax}, print : BOOLEAN]

\* the invocations that get as far as the walk
ReachesWalk(a) ==
    a.parse_ok /\ ~a.help /\ ~a.version /\ a.path = "dir" /\ a.depth_valid

\* neither --theme nor --template
DefaultTemplates(a) == a.theme = "default" /\ a.template = "none"

\* the command lines of the model: --theme and --template are read after the
\* walk, and are left out of the invocations that end before it
Invocations == {a \in Args : ~ReachesWalk(a) => DefaultTemplates(a)}

\* the trees below PATH: nothing unless PATH is a directory; the full set for
\* the invocations that walk it and render with the default templates, the
\* small ones for the others
FullTrees == Trees(MaxEntries)
SmallTrees == Trees(MaxSmallEntries)
TreesFor(a) ==
    IF a.path # "dir" THEN {<<>>}
    ELSE IF ReachesWalk(a) /\ DefaultTemplates(a) THEN FullTrees
    ELSE SmallTrees

Init ==
    /\ args \in Invocations
    /\ fs \in TreesFor(args)
    /\ pc = "main"
    /\ max_depth = 0
    /\ started = FALSE
    /\ stack = <<>>
    /\ map = <<>>
    /\ rendered = {}
    /\ pages = <<>>
    /\ created = <<>>
    /\ stdout = <<>>
    /\ result = "running"
    /\ call = <<>>
    /\ ret = ""

\* variant for C10: errors are not propagated
SwallowErrors(r) == TRUE

\* every fallible call is followed by `?`: the first Err returns from generate
Running(r) == r = "running"

\* print_usage: the usage text on the standard output
print_usage(out) == Append(out, [out |-> "usage", key |-> <<>>])

\* println!("{} {} {}", name, version, homepage)
print_version(out) == Append(out, [out |-> "version", key |-> <<>>])

(***************************************************************************)
(* main: parses the command line, prints the usage for -h, else calls app. *)
(***************************************************************************)
\* opts.parse fails: panic!
MainParsePanic ==
    /\ pc = "main" /\ Running(result)
    /\ ~args.parse_ok
    /\ result' = "Panic"
    /\ UNCHANGED <<call, ret, fs, args, pc, max_depth, started, stack, map,
                   rendered, pages, created, stdout>>

MainHelp ==
    /\ pc = "main" /\ Running(result)
    /\ args.parse_ok /\ args.help
    /\ stdout' = print_usage(stdout)
    /\ result' = "Ok"
    /\ UNCHANGED <<call, ret, fs, args, pc, max_depth, started, stack, map,
                   rendered, pages, created>>

\* print! panics when the standard output cannot be written
MainHelpPanic ==
    /\ pc = "main" /\ Running(result)
    /\ args.parse_ok /\ args.help
    /\ result' = "Panic"
    /\ UNCHANGED <<call, ret, fs, args, pc, max_depth, started, stack, map,
                   rendered, pages, created, stdout>>

MainApp ==
    /\ pc = "main" /\ Running(result)
    /\ args.parse_ok /\ ~args.help
    /\ pc' = "app"
    /\ UNCHANGED <<call, ret, fs, args, max_depth, started, stack, map,
                   rendered, pages, created, stdout, result>>

(***************************************************************************)
(* app: its early exits, then the choice of the cutoff and the call of     *)
(* generate.                                                               *)
(***************************************************************************)
\* --version: the version line, Ok
AppVersion ==
    /\ pc = "app" /\ Running(result)
    /\ args.version
    /\ stdout' = print_version(stdout)
    /\ result' = "Ok"
    /\ UNCHANGED <<call, ret, fs, args, pc, max_depth, started, stack, map,
                   rendered, pages, created>>

\* println! panics when the standard output cannot be written
AppVersionPanic ==
    /\ pc = "app" /\ Running(result)
    /\ args.version
    /\ result' = "Panic"
    /\ UNCHANGED <<call, ret, fs, args, pc, max_depth, started, stack, map,
                   rendered, pages, created, stdout>>

\* no PATH: the usage text, Ok
AppUsage ==
    /\ pc = "app" /\ Running(result)
    /\ ~args.version /\ args.path = "none"
    /\ stdout' = print_usage(stdout)
    /\ result' = "Ok"
    /\ UNCHANGED <<call, ret, fs, args, pc, max_depth, started, stack, map,
                   rendered, pages, created>>

\* print! panics when the standard output cannot be written
AppUsagePanic ==
    /\ pc = "app" /\ Running(result)
    /\ ~args.version /\ args.path = "none"
    /\ result' = "Panic"
    /\ UNCHANGED <<call, ret, fs, args, pc, max_depth, started, stack, map,
                   rendered, pages, created, stdout>>

\* panic!("Path does not exists")
AppPathPanic ==
    /\ pc = "app" /\ Running(result)
    /\ ~args.version /\ args.path = "missing"
    /\ result' = "Panic"
    /\ UNCHANGED <<call, ret, fs, args, pc, max_depth, started, stack, map,
                   rendered, pages, created, stdout>>

\* matches.opt_get_default("depth", usize::MAX)?
AppDepthFail ==
    /\ pc = "app" /\ Running(result)
    /\ ~args.version /\ args.path \in {"file", "dir"}
    /\ ~args.depth_valid
    /\ result' = "Err"
    /\ UNCHANGED <<call, ret, fs, args, pc, max_depth, started, stack, map,
                   rendered, pages, created, stdout>>

\* generate(.., 1, ..) or generate(.., depth, ..)
app ==
    /\ pc = "app" /\ Running(result)
    /\ ~args.version /\ args.path \in {"file", "dir"}
    /\ args.depth_valid
    /\ max_depth' = CutoffDepth(args.no_recursive, args.depth)
    /\ pc' = "generate"
    /\ UNCHANGED <<call, ret, fs, args, started, stack, map, rendered, pages, created,
                   stdout, result>>

\* std::env::set_current_dir(path)? succeeds only on a directory
SetCurrentDir ==
    /\ pc = "generate" /\ Running(result)
    /\ args.path = "dir"
    /\ pc' = "walk"
    /\ UNCHANGED <<call, ret, fs, args, max_depth, started, stack, map,
                   rendered, pages, created, stdout, result>>

\* std::env::set_current_dir(path)? fails: PATH is a regular file, or a
\* directory that may not be entered
SetCurrentDirFail ==
    /\ pc = "generate" /\ Running(result)
    /\ result' = "Err"
    /\ UNCHANGED <<call, ret, fs, args, pc, max_depth, started, stack, map,
                   rendered, pages, created, stdout>>

\* the first item of the iterator: the root, depth 0, skipped by the loop body
WalkRoot ==
    /\ pc = "walk" /\ Running(result) /\ ~started
    /\ started' = TRUE
    /\ stack' = Push(fs, <<>>, <<>>)
    /\ UNCHANGED <<call, ret, fs, args, pc, max_depth, map, rendered, pages, created,
                   stdout, result>>

\* the top list is exhausted, or lies below the cutoff
WalkPop ==
    /\ pc = "walk" /\ Running(result) /\ started /\ stack # <<>>
    /\ ExceedsMaxDepth(stack, max_depth) \/ stack[Len(stack)] = <<>>
    /\ stack' = Pop(stack)
    /\ UNCHANGED <<call, ret, fs, args, pc, max_depth, started, map, rendered, pages,
                   created, stdout, result>>

\* an entry that passes the filter is yielded and grouped under its parent
WalkYield ==
    /\ pc = "walk" /\ Running(result) /\ started /\ stack # <<>>
    /\ ~ExceedsMaxDepth(stack, max_depth) /\ stack[Len(stack)] # <<>>
    /\ LET dent == Head(stack[Len(stack)]) IN
        /\ filter_entry(dent)
        /\ stack' = Push(fs, Advance(stack), dent)
        /\ map' = IF depth(dent) = 0 THEN map ELSE MapPush(map, dent)
    /\ UNCHANGED <<call, ret, fs, args, pc, max_depth, started, rendered, pages, created,
                   stdout, result>>

\* an entry the filter rejects is dropped, with its subtree
WalkFiltered ==
    /\ pc = "walk" /\ Running(result) /\ started /\ stack # <<>>
    /\ ~ExceedsMaxDepth(stack, max_depth) /\ stack[Len(stack)] # <<>>
    /\ LET dent == Head(stack[Len(stack)]) IN
        /\ ~filter_entry(dent)
        /\ stack' = SkipCurrentDir(fs, Push(fs, Advance(stack), dent), dent)
    /\ UNCHANGED <<call, ret, fs, args, pc, max_depth, started, map, rendered, pages,
                   created, stdout, result>>

\* let entry = entry?;  an I/O error of the traversal ends the run
WalkFail ==
    /\ pc = "walk" /\ Running(result) /\ started /\ stack # <<>>
    /\ ~ExceedsMaxDepth(stack, max_depth)
    /\ result' = "Err"
    /\ UNCHANGED <<call, ret, pc, fs, args, max_depth, started, stack, map, rendered, pages,
                   created, stdout>>

WalkEnd ==
    /\ pc = "walk" /\ Running(result) /\ started /\ stack = <<>>
    /\ pc' = "template"
    /\ UNCHANGED <<call, ret, fs, args, max_depth, started, stack, map, rendered, pages,
                   created, stdout, result>>

\* the bundled templates: templates/<theme>/layout.html and index.html
TEMPLATE_DIR ==
    {"default/layout.html", "default/index.html",
     "default-dark/layout.html", "default-dark/index.html"}

\* TEMPLATE_DIR.get_file(path) is Some
get_file(dir, path) == path \in dir

\* `let mut tera = match template { .. }`: Tera::new(t)? on --template, else
\* the two files of the theme, each get_file(..).unwrap()
LoadTera(template, theme) ==
    IF template # "none"
    THEN (IF template = "bad" THEN "Err" ELSE "Ok")
    ELSE IF ~get_file(TEMPLATE_DIR, theme \o "/layout.html") THEN "Panic"
    ELSE IF ~get_file(TEMPLATE_DIR, theme \o "/index.html") THEN "Panic"
    ELSE "Ok"

\* tera.render("index.html", ..)? with no template of that name
RenderFails(template) == template = "noindex"

\* both templates are loaded before any page is rendered
LoadTemplates ==
    /\ pc = "template" /\ Running(result)
    /\ LoadTera(args.template, args.theme) = "Ok"
    /\ pc' = "render"
    /\ UNCHANGED <<call, ret, fs, args, max_depth, started, stack, map, rendered, pages,
                   created, stdout, result>>

\* Tera::new(t)?: the templates of --template do not load
TemplateFail ==
    /\ pc = "template" /\ Running(result)
    /\ LoadTera(args.template, args.theme) = "Err"
    /\ result' = "Err"
    /\ UNCHANGED <<call, ret, pc, fs, args, max_depth, started, stack, map, rendered, pages,
                   created, stdout>>

\* get_file(..).unwrap() on None: the theme has no such file
TemplatePanic ==
    /\ pc = "template" /\ Running(result)
    /\ LoadTera(args.template, args.theme) = "Panic"
    /\ result' = "Panic"
    /\ UNCHANGED <<call, ret, pc, fs, args, max_depth, started, stack, map, rendered, pages,
                   created, stdout>>

\* what println! leaves on the standard output
Printed(out, k) ==
    IF args.print THEN Append(out, [out |-> "page", key |-> k]) ELSE out

\* one iteration of `for (k, v) in map.iter()`: extract, render, print, write
GenerateDir(k) ==
    /\ pc = "render" /\ Running(result) /\ k \in DOMAIN map \ rendered
    /\ ~RenderFails(args.template)
    /\ ~is_dir(fs, OutputPath(k, args.name))
    /\ rendered' = rendered \cup {k}
    /\ stdout' = Printed(stdout, k)
    /\ created' = Append(created, OutputPath(k, args.name))
    /\ pages' = (OutputPath(k, args.name) :> Page(fs, k, map[k])) @@ pages
    /\ fs' = (OutputPath(k, args.name) :> "file") @@ fs
    /\ UNCHANGED <<call, ret, args, pc, max_depth, started, stack, map, result>>

\* f.metadata()?, modified()?, tera.render(..)?: nothing printed or written
ExtractFail(k) ==
    /\ pc = "render" /\ Running(result) /\ k \in DOMAIN map \ rendered
    /\ result' = "Err"
    /\ UNCHANGED <<call, ret, pc, fs, args, max_depth, started, stack, map, rendered, pages,
                   created, stdout>>

\* println!("{}", html) panics when the standard output cannot be written:
\* no file is made
PrintPanic(k) ==
    /\ pc = "render" /\ Running(result) /\ k \in DOMAIN map \ rendered
    /\ ~RenderFails(args.template)
    /\ args.print
    /\ result' = "Panic"
    /\ UNCHANGED <<call, ret, fs, args, pc, max_depth, started, stack, map,
                   rendered, pages, created, stdout>>

\* File::create(..)?: the page was printed, no file is made
CreateFail(k) ==
    /\ pc = "render" /\ Running(result) /\ k \in DOMAIN map \ rendered
    /\ ~RenderFails(args.template)
    /\ stdout' = Printed(stdout, k)
    /\ result' = "Err"
    /\ UNCHANGED <<call, ret, pc, fs, args, max_depth, started, stack, map, rendered, pages,
                   created>>

\* file.write_all(..)?: the file was created and truncated, the page is not whole
WriteFail(k) ==
    /\ pc = "render" /\ Running(result) /\ k \in DOMAIN map \ rendered
    /\ ~RenderFails(args.template)
    /\ ~is_dir(fs, OutputPath(k, args.name))
    /\ stdout' = Printed(stdout, k)
    /\ created' = Append(created, OutputPath(k, args.name))
    /\ pages' = (OutputPath(k, args.name) :> Truncated(k)) @@ pages
    /\ fs' = (OutputPath(k, args.name) :> "file") @@ fs
    /\ result' = "Err"
    /\ UNCHANGED <<call, ret, pc, args, max_depth, started, stack, map, rendered>>

\* Ok(())
Finish ==
    /\ pc = "render" /\ Running(result) /\ rendered = DOMAIN map
    /\ pc' = "done"
    /\ result' = "Ok"
    /\ UNCHANGED <<call, ret, fs, args, max_depth, started, stack, map, rendered, pages,
                   created, stdout>>

Next ==
    \/ MainParsePanic
    \/ MainHelp
    \/ MainHelpPanic
    \/ MainApp
    \/ AppVersion
    \/ AppVersionPanic
    \/ AppUsage
    \/ AppUsagePanic
    \/ AppPathPanic
    \/ AppDepthFail
    \/ app
    \/ SetCurrentDir
    \/ SetCurrentDirFail
    \/ WalkRoot
    \/ WalkPop
    \/ WalkYield
    \/ WalkFiltered
    \/ WalkFail
    \/ WalkEnd
    \/ LoadTemplates
    \/ TemplateFail
    \/ TemplatePanic
    \/ \E k \in DOMAIN map : GenerateDir(k)
    \/ \E k \in DOMAIN map : ExtractFail(k)
    \/ \E k \in DOMAIN map : PrintPanic(k)
    \/ \E k \in DOMAIN map : CreateFail(k)
    \/ \E k \in DOMAIN map : WriteFail(k)
    \/ Finish

(***************************************************************************)
(* Properties of the walk and of the pages (specification Spec).           *)
(***************************************************************************)
ReservedNames == {"index.html", "images", "favicon.ico"}

\* the entries of all groups
Listed == UNION {{map[k][i] : i \in 1..Len(map[k])} : k \in DOMAIN map}

\* no component of the path is a name the traversal filters out
Unpruned(p) == \A i \in 1..Len(p) : p[i] \notin ReservedNames

\* the children of d that the traversal filter lets through
Surviving(d) == {c \in Children(fs, d) : file_name(c) \notin ReservedNames}

WalkComplete == pc = "template"

\* p is d or lies below d
IsUnder(p, d) == Len(p) >= Len(d) /\ \A i \in 1..Len(d) : p[i] = d[i]

\* C1 (as stated): every member of a group has the group key as its parent, and
\* after the walk every directory that is not excluded, lies under the depth
\* cutoff and is non-empty is a group key.
C1_NonEmptyDirIsKey ==
    /\ \A k \in DOMAIN map : \A i \in 1..Len(map[k]) : parent(map[k][i]) = k
    /\ WalkComplete =>
         \A d \in DirsOf(fs) :
            (Unpruned(d) /\ depth(d) < max_depth /\ Children(fs, d) # {})
               => d \in DOMAIN map

\* C1 (amended): every member of a group has the group key as its parent, and
\* after the walk the group keys are exactly the directories that are not
\* pruned, lie at a depth below max_depth and have at least one child whose
\* name is not index.html, images or favicon.ico.
C1_Grouping ==
    /\ \A k \in DOMAIN map : \A i \in 1..Len(map[k]) : parent(map[k][i]) = k
    /\ WalkComplete =>
         DOMAIN map = {d \in DirsOf(fs) :
                          Unpruned(d) /\ depth(d) < max_depth /\ Surviving(d) # {}}

C1_Witness ==
    /\ WalkComplete
    /\ Cardinality(DOMAIN map) >= 2
    /\ \E d \in DirsOf(fs) :
          Unpruned(d) /\ depth(d) < max_depth
          /\ Children(fs, d) # {} /\ Surviving(d) = {}

\* C2: no entry named as the configured output file, images or favicon.ico is
\* in any group, and no group is keyed by a path through such a name.
C2_ConfiguredNameExcluded ==
    LET reserved == {args.name, "images", "favicon.ico"} IN
    /\ \A e \in Listed : file_name(e) \notin reserved
    /\ \A k \in DOMAIN map : \A i \in 1..Len(k) : k[i] \notin reserved

\* C3: a directory named index.html, images or favicon.ico contributes nothing:
\* neither it nor anything below it is listed, and neither it nor a directory
\* below it is a group key.
C3_ExclusionRecursive ==
    \A d \in DirsOf(fs) :
       (d # <<>> /\ file_name(d) \in ReservedNames) =>
          /\ \A e \in Listed : ~IsUnder(e, d)
          /\ \A k \in DOMAIN map : ~IsUnder(k, d)

C3_Witness ==
    /\ WalkComplete
    /\ max_depth >= 2
    /\ map # <<>>
    /\ \E d \in DirsOf(fs) :
          /\ d # <<>> /\ file_name(d) \in ReservedNames
          /\ \E c \in Children(fs, d) : file_name(c) \notin ReservedNames

\* C4: no entry deeper than max_depth is listed and the root is never listed;
\* --no-recursive selects the cutoff 1 whatever --depth says; after a walk with
\* cutoff 1 the only group is the root's and it holds exactly the root's
\* children that are not filtered out.
C4_DepthCutoff ==
    /\ \A e \in Listed : depth(e) >= 1 /\ depth(e) <= max_depth
    /\ (pc \notin {"main", "app"} /\ args.no_recursive) => max_depth = 1
    /\ (WalkComplete /\ max_depth = 1) =>
          /\ DOMAIN map \subseteq {<<>>}
          /\ Listed = {c \in DOMAIN fs : Len(c) = 1 /\ c[1] \notin ReservedNames}

C4_Witness ==
    /\ WalkComplete
    /\ args.no_recursive /\ args.depth # 1
    /\ Listed # {}
    /\ \E p \in DOMAIN fs : Len(p) = 2 /\ Unpruned(p)

\* C5: the entries of every group, and the FileItems of every page, are in
\* ascending order of file name.
C5_ListingOrder ==
    /\ \A k \in DOMAIN map : \A i, j \in 1..Len(map[k]) :
          i < j => NameLess(file_name(map[k][i]), file_name(map[k][j]))
    /\ \A o \in DOMAIN pages : \A i, j \in 1..Len(pages[o].files) :
          i < j => NameLess(pages[o].files[i].name, pages[o].files[j].name)

\* a page of two entries whose first is a directory with a page of its own
C5_Witness ==
    /\ pc = "done"
    /\ \E o \in DOMAIN pages :
          /\ Len(pages[o].files) >= 2
          /\ pages[o].files[1].path \in DOMAIN map

\* C9: a run that returns Ok has created exactly one file per group key, named
\* by the configured output name inside that directory, each once and each a
\* whole page; a directory without a listed child has none.
C9_OutputFiles ==
    result = "Ok" =>
       /\ {created[i] : i \in 1..Len(created)} = {k \o <<args.name>> : k \in DOMAIN map}
       /\ \A i, j \in 1..Len(created) : created[i] = created[j] => i = j
       /\ \A i \in 1..Len(created) :
             /\ pages[created[i]].whole
             /\ pages[created[i]].key = parent(created[i])
             /\ pages[created[i]].files # <<>>
       /\ DOMAIN pages = {created[i] : i \in 1..Len(created)}
       /\ \A d \in DirsOf(fs) :
             Surviving(d) = {} => d \o <<args.name>> \notin DOMAIN pages

\* the tree b.txt, sub/b.txt: two files, index.html and sub/index.html
C9_Witness ==
    /\ result = "Ok"
    /\ args.name = "index.html"
    /\ map = (<<>> :> << <<"b.txt">>, <<"sub">> >>)
             @@ (<<"sub">> :> << <<"sub", "b.txt">> >>)
    /\ {created[i] : i \in 1..Len(created)} = {<<"index.html">>, <<"sub", "index.html">>}

\* C10: once the run has failed (Err or panic) nothing more is created or
\* written; a run that failed before the walk, in the traversal or in the
\* template load (an Err of Tera::new, a panic on a theme that is not
\* bundled) has written nothing; the pages written before a later failure
\* are whole.
C10_FailFast ==
    /\ [][(result \in {"Err", "Panic"})
              => (pages' = pages /\ created' = created /\ fs' = fs)]_vars
    /\ []((result \in {"Err", "Panic"}
              /\ pc \in {"main", "app", "generate", "walk", "template"})
             => (created = <<>> /\ pages = <<>>))
    /\ []((result \in {"Err", "Panic"} /\ pc = "render")
             => \A k \in rendered : pages[k \o <<args.name>>].whole)

C10_Witness ==
    /\ result = "Err" /\ pc = "render"
    /\ rendered # {}
    /\ DOMAIN map \ rendered # {}

Spec == Init /\ [][Next]_vars
(***************************************************************************)
(* size_fmt.  A u64 is held as its seven base-1024 digits, lowest first    *)
(* (the seventh is at most 15); an f64 that is an integer below 2^65 is    *)
(* held the same way, its seventh digit at most 16.                        *)
(***************************************************************************)
NoDigits == [i \in 1..7 |-> 0]

RECURSIVE Pow2(_)
Pow2(n) == IF n = 0 THEN 1 ELSE 2 * Pow2(n - 1)

RECURSIVE BitLen(_)
BitLen(v) == IF v = 0 THEN 0 ELSE 1 + BitLen(v \div 2)

\* index of the highest non-zero digit, 0 for zero
TopDigit(d) == IF d = NoDigits THEN 0 ELSE CHOOSE i \in 1..7 : d[i] # 0 /\ \A j \in (i + 1)..7 : d[j] = 0

\* number of significant bits
Bits(d) == IF TopDigit(d) = 0 THEN 0 ELSE 10 * (TopDigit(d) - 1) + BitLen(d[TopDigit(d)])

\* carries out of digits 1..6 moved upwards
RECURSIVE Carry(_, _)
Carry(d, i) ==
    IF i >= 7 THEN d
    ELSE Carry([d EXCEPT ![i] = d[i] % 1024, ![i + 1] = d[i + 1] + d[i] \div 1024], i + 1)

\* `len as f64`: the nearest value with a 53-bit significand, ties to even
AsF64(d) ==
    IF Bits(d) <= 53 THEN d
    ELSE LET s    == Bits(d) - 53
             m    == Pow2(s)
             low  == d[1] + 1024 * d[2]
             r    == low % m
             q    == low \div m
             up   == r > m \div 2 \/ (r = m \div 2 /\ q % 2 = 1)
             low2 == low - r + (IF up THEN m ELSE 0)
         IN Carry([d EXCEPT ![1] = low2 % 1024, ![2] = low2 \div 1024], 2)

\* the unit table of the loop
Unit(u) == <<"", "KiB", "MiB", "GiB", "TiB", "PiB", "EiB", "ZiB">>[u + 1]

\* len.abs() < 1024.0 after u divisions by 1024.0 (each is exact)
Below1024(v, u) == \A j \in (u + 2)..7 : v[j] = 0

DigitStr(n) == <<"0", "1", "2", "3", "4", "5", "6", "7", "8", "9">>[n + 1]

\* an integer in decimal
RECURSIVE DecStr(_)
DecStr(n) == IF n < 10 THEN DigitStr(n) ELSE DecStr(n \div 10) \o DigitStr(n % 10)

RECURSIVE Spaces(_)
Spaces(n) == IF n <= 0 THEN "" ELSE " " \o Spaces(n - 1)

\* variant for C7: no minimum width
NoPad(str, w) == str

\* the minimum width of {:3.0} and {:3.1}: numbers are padded on the left
PadLeft(str, w) == Spaces(w - Len(str)) \o str

\* the integer part of v / 1024^u
RECURSIVE IntPart(_, _)
IntPart(v, j) == IF j > 7 THEN 0 ELSE v[j] + 1024 * IntPart(v, j + 1)
IntPartOf(v, u) == IntPart(v, u + 1)

\* the digits of v below 1024^u, times m: the carry into the integer part and
\* the digits that remain
RECURSIVE MulFrac(_, _, _, _, _)
MulFrac(v, u, m, i, acc) ==
    IF i > u THEN acc
    ELSE LET t == (IF i <= 7 THEN v[i] ELSE 0) * m + acc.carry
         IN MulFrac(v, u, m, i + 1,
                    [carry |-> t \div 1024, rem |-> Append(acc.rem, t % 1024)])

\* v / 1024^u times 10^prec, rounded to an integer, halves to even
Scaled(v, u, prec) ==
    LET m    == IF prec = 0 THEN 1 ELSE 10
        fr   == MulFrac(v, u, m, 1, [carry |-> 0, rem |-> <<>>])
        whole == IntPartOf(v, u) * m + fr.carry
        n    == Len(fr.rem)
        cmp  == IF n = 0 THEN -1
                ELSE IF fr.rem[n] > 512 THEN 1
                ELSE IF fr.rem[n] < 512 THEN -1
                ELSE IF \E j \in 1..(n - 1) : fr.rem[j] # 0 THEN 1
                ELSE 0
    IN IF cmp = 1 \/ (cmp = 0 /\ whole % 2 = 1) THEN whole + 1 ELSE whole

\* {:.0} and {:.1} of v / 1024^u
Fixed(v, u, prec) ==
    LET n == Scaled(v, u, prec) IN
    IF prec = 0 THEN DecStr(n) ELSE DecStr(n \div 10) \o "." \o DigitStr(n % 10)

RECURSIVE SizeLoop(_, _)
SizeLoop(v, u) ==
    IF u > 7 THEN Fixed(v, u, 1) \o " " \o "YiB"
    ELSE IF Below1024(v, u)
         THEN IF Unit(u) = ""
              THEN PadLeft(Fixed(v, u, 0), 3) \o " " \o Unit(u)
              ELSE PadLeft(Fixed(v, u, 1), 3) \o " " \o Unit(u)
         ELSE SizeLoop(v, u + 1)

size_fmt(len) == SizeLoop(AsF64(len), 0)

(***************************************************************************)
(* get_icon_by_mime.  A MIME string is the sequence of its characters; the *)
(* catalog ICON_DIR is a function from file paths to file contents.        *)
(***************************************************************************)
RECURSIVE Str(_)
Str(cs) == IF cs = <<>> THEN "" ELSE Head(cs) \o Str(Tail(cs))

\* mime.split('/')
RECURSIVE Split(_, _)
Split(cs, cur) ==
    IF cs = <<>> THEN <<cur>>
    ELSE IF Head(cs) = "/" THEN <<cur>> \o Split(Tail(cs), <<>>)
    ELSE Split(Tail(cs), Append(cur, Head(cs)))

InodeDirectory ==
    <<"i", "n", "o", "d", "e", "/", "d", "i", "r", "e", "c", "t", "o", "r", "y">>

\* if is_dir { mime = "inode/directory" }
EffectiveMime(mime, isdir) == IF isdir THEN InodeDirectory ELSE mime

\* variant for C6: the generic icon tried first
DefaultFirst(mime) ==
    IF mime = <<>> THEN <<"default">>
    ELSE LET segments == Split(mime, <<>>) IN
         <<"default", Str(segments[1]) \o "/" \o Str(segments[2]), Str(segments[1])>>

\* valid_targets; segments[1] of the source is segments[2] here, and it is
\* undefined (the source panics) for a MIME without a '/', which mime_guess
\* never yields
ValidTargets(mime) ==
    IF mime = <<>> THEN <<"default">>
    ELSE LET segments == Split(mime, <<>>) IN
         <<Str(segments[1]) \o "/" \o Str(segments[2]), Str(segments[1]), "default">>

Base64Alphabet ==
    <<"A", "B", "C", "D", "E", "F", "G", "H", "I", "J", "K", "L", "M",
      "N", "O", "P", "Q", "R", "S", "T", "U", "V", "W", "X", "Y", "Z",
      "a", "b", "c", "d", "e", "f", "g", "h", "i", "j", "k", "l", "m",
      "n", "o", "p", "q", "r", "s", "t", "u", "v", "w", "x", "y", "z",
      "0", "1", "2", "3", "4", "5", "6", "7", "8", "9", "+", "/">>

B64(n) == Base64Alphabet[n + 1]

\* BASE64_STANDARD.encode
RECURSIVE Base64(_)
Base64(bs) ==
    IF bs = <<>> THEN ""
    ELSE IF Len(bs) = 1 THEN
        B64(bs[1] \div 4) \o B64((bs[1] % 4) * 16) \o "=="
    ELSE IF Len(bs) = 2 THEN
        B64(bs[1] \div 4) \o B64((bs[1] % 4) * 16 + bs[2] \div 16)
           \o B64((bs[2] % 16) * 4) \o "="
    ELSE
        B64(bs[1] \div 4) \o B64((bs[1] % 4) * 16 + bs[2] \div 16)
           \o B64((bs[2] % 16) * 4 + bs[3] \div 64) \o B64(bs[3] % 64)
           \o Base64(SubSeq(bs, 4, Len(bs)))

\* the loop over valid_targets: the first file found is encoded and returned
RECURSIVE FirstHit(_, _, _)
FirstHit(icons, iconset, targets) ==
    IF targets = <<>> THEN ""
    ELSE LET file == iconset \o "/" \o Head(targets) \o ".svg" IN
         IF file \in DOMAIN icons THEN Base64(icons[file])
         ELSE FirstHit(icons, iconset, Tail(targets))

get_icon_by_mime(icons, mime, isdir, iconset) ==
    FirstHit(icons, iconset, ValidTargets(EffectiveMime(mime, isdir)))

(***************************************************************************)
(* The inputs of the two functions.                                        *)
(***************************************************************************)
\* byte counts: everything below 1024, and around every power of 1024
LowDigits == {0, 1, 256, 511, 512, 513, 959, 960, 961, 1023}
FillDigits == {0, 512, 1023}
TopDigits(t) == IF t = 7 THEN {1, 8, 15} ELSE {1, 2, 512, 1023}

SizeInputs ==
    {[i \in 1..7 |-> IF i = 1 THEN x ELSE 0] : x \in 0..1023}
    \cup UNION {{[i \in 1..7 |-> IF i = 1 THEN lo
                                 ELSE IF i < t THEN fill
                                 ELSE IF i = t THEN top ELSE 0] :
                    lo \in LowDigits, fill \in FillDigits, top \in TopDigits(t)} :
                t \in 2..7}

\* the files a catalog of the model may hold, with their contents
IconFiles ==
    ("papirus/text/plain.svg"        :> <<60, 115, 118, 103, 47, 62>>)
    @@ ("papirus/text.svg"            :> <<60, 115, 118, 103, 62>>)
    @@ ("papirus/default.svg"         :> <<60, 115, 118, 103>>)
    @@ ("papirus/inode/directory.svg" :> <<60, 115, 118, 103, 47, 62, 10>>)
    @@ ("papirus/inode.svg"           :> <<60, 115, 118, 103, 32, 62>>)
    @@ ("papirus/application/pdf.svg" :> <<60, 115, 118, 103, 32, 105, 100>>)
    @@ ("flat/default.svg"            :> <<60, 103, 47, 62>>)

Catalogs == {[f \in S |-> IconFiles[f]] : S \in SUBSET DOMAIN IconFiles}

\* what mime_guess gives for b.txt, file.pdf, a.png and for an unknown extension
Mimes ==
    { <<>>,
      <<"t", "e", "x", "t", "/", "p", "l", "a", "i", "n">>,
      <<"a", "p", "p", "l", "i", "c", "a", "t", "i", "o", "n", "/", "p", "d", "f">>,
      <<"i", "m", "a", "g", "e", "/", "p", "n", "g">> }

Iconsets == {"papirus", "flat"}

treeVars == <<fs, args, max_depth, started, stack, map, rendered, pages,
              created, stdout, result>>

InitPure ==
    /\ fs = <<>>
    /\ args = <<>>
    /\ max_depth = 0
    /\ started = FALSE
    /\ stack = <<>>
    /\ map = <<>>
    /\ rendered = {}
    /\ pages = <<>>
    /\ created = <<>>
    /\ stdout = <<>>
    /\ result = "running"
    /\ ret = ""

InitSize ==
    /\ InitPure
    /\ pc = "size_fmt"
    /\ call \in [len : SizeInputs]

SizeFmt ==
    /\ pc = "size_fmt"
    /\ ret' = size_fmt(call.len)
    /\ pc' = "returned"
    /\ UNCHANGED <<treeVars, call>>

NextSize == SizeFmt

SpecSize == InitSize /\ [][NextSize]_vars

InitIcon ==
    /\ InitPure
    /\ pc = "get_icon_by_mime"
    /\ call \in [icons : Catalogs, mime : Mimes, is_dir : BOOLEAN, iconset : Iconsets]

GetIconByMime ==
    /\ pc = "get_icon_by_mime"
    /\ ret' = get_icon_by_mime(call.icons, call.mime, call.is_dir, call.iconset)
    /\ pc' = "returned"
    /\ UNCHANGED <<treeVars, call>>

NextIcon == GetIconByMime

SpecIcon == InitIcon /\ [][NextIcon]_vars

(***************************************************************************)
(* Properties of size_fmt (specification SpecSize).                        *)
(***************************************************************************)
Returned == pc = "returned"

\* the byte count of the call is below 1024
IsSmall == \A j \in 2..7 : call.len[j] = 0

\* C7 (as stated): for b < 1024, size_fmt(b) is the decimal string of b and
\* nothing else.
C7_BareDecimal ==
    (Returned /\ IsSmall) => ret = DecStr(call.len[1])

\* C7 (amended): for b < 1024, size_fmt(b) is the decimal string of b, padded
\* with spaces on the left to three characters and followed by one space; no
\* unit label follows.
C7_PaddedDecimal ==
    (Returned /\ IsSmall) =>
        LET b == call.len[1] IN
        ret = (IF b < 10 THEN "  " ELSE IF b < 100 THEN " " ELSE "")
                 \o DecStr(b) \o " "

C7_Witness ==
    /\ Returned /\ IsSmall
    /\ call.len[1] = 5
    /\ ret = "  5 "

UnitLabels == <<"KiB", "MiB", "GiB", "TiB", "PiB", "EiB", "ZiB", "YiB">>

\* C8: for 1024^k <= b < 1024^(k+1), k >= 1, size_fmt(b) is a number with one
\* decimal digit followed by the k-th unit label.
C8_UnitOfMagnitude ==
    (Returned /\ ~IsSmall) =>
        LET k == TopDigit(call.len) - 1 IN
        \E n \in 1..1024, d \in 0..9 :
            ret = DecStr(n) \o "." \o DigitStr(d) \o " " \o UnitLabels[k]

(***************************************************************************)
(* Properties of get_icon_by_mime (specification SpecIcon).                *)
(***************************************************************************)
\* the targets of a call, in the order they are to be tried
ExpectedTargets ==
    IF call.is_dir THEN <<"inode/directory", "inode", "default">>
    ELSE IF call.mime = <<>> THEN <<"default">>
    ELSE IF call.mime[1] = "t" THEN <<"text/plain", "text", "default">>
    ELSE IF call.mime[1] = "a" THEN <<"application/pdf", "application", "default">>
    ELSE <<"image/png", "image", "default">>

\* the base64 text of the files of IconFiles
ExpectedBase64 ==
    ("papirus/text/plain.svg"        :> "PHN2Zy8+")
    @@ ("papirus/text.svg"            :> "PHN2Zz4=")
    @@ ("papirus/default.svg"         :> "PHN2Zw==")
    @@ ("papirus/inode/directory.svg" :> "PHN2Zy8+Cg==")
    @@ ("papirus/inode.svg"           :> "PHN2ZyA+")
    @@ ("papirus/application/pdf.svg" :> "PHN2ZyBpZA==")
    @@ ("flat/default.svg"            :> "PGcvPg==")

ExpectedFile(i) == call.iconset \o "/" \o ExpectedTargets[i] \o ".svg"

\* C6: the result is the base64 text of the first of type/subtype, type,
\* default (of inode/directory for a directory, of default alone for an empty
\* MIME) that the catalog holds under the iconset, and it is empty exactly
\* when the catalog holds none of them.
C6_IconResolution ==
    Returned =>
        LET hits == {i \in 1..Len(ExpectedTargets) :
                        ExpectedFile(i) \in DOMAIN call.icons} IN
        /\ hits = {} <=> ret = ""
        /\ hits # {} =>
             \E i \in hits :
                /\ \A j \in hits : i <= j
                /\ ret = ExpectedBase64[ExpectedFile(i)]

\* text/plain with only text and default in the catalog gives the text icon
C6_Witness ==
    /\ Returned
    /\ ~call.is_dir /\ call.iconset = "papirus"
    /\ call.mime = <<"t", "e", "x", "t", "/", "p", "l", "a", "i", "n">>
    /\ DOMAIN call.icons = {"papirus/text.svg", "papirus/default.svg"}
    /\ ret = "PHN2Zz4="

====
